---- MODULE Spec2Model ----
(***************************************************************************)
(* Model of the Reference Ingest Guide (RIG) utilities:                    *)
(*   - src/scripts/mkg_to_rig.py  the knowledge-graph importer             *)
(*   - src/scripts/create_rig.py  the RIG scaffolder                       *)
(*   - src/util/rig_github.py     the GitHub publishing wrapper            *)
(* Python dicts are modelled as ordered maps (sequences of <<key, value>>  *)
(* pairs) where key order is observable (YAML written with sort_keys=False,*)
(* iteration over the JSON `nodes` object) and as records elsewhere.       *)
(***************************************************************************)
EXTENDS Integers, Sequences, FiniteSets, TLC

VARIABLES
    fs,         \* importer: the ingest folder, file name -> content (DOMAIN = existing files)
    pre,        \* importer: the ingest folder as it was when the last run started
    outcome,    \* importer: how the last run of main ended
    exitCode,   \* importer: exit code of the last run (-1 before any run)
    args,       \* importer: <<knowledge_level, agent_type>> of the last run
    prev,       \* importer: the run before the last one (its JSON and arguments when it succeeded)
    runs,       \* importer: number of runs so far
    edited,     \* importer: whether the JSON file was touched since the last run
    disk,       \* scaffolder: [files: path -> content, dirs: the directories that exist]
    templateFile, \* scaffolder: the template file, <<>> when missing, else <<its content>>
    diskBefore, \* scaffolder: the disk as it was when the last run started
    scaffold,   \* scaffolder: the last run, its inputs and how it ended
    scaffolds,  \* scaffolder: number of runs so far
    remote,     \* publisher: branch -> the file at the path, <<>> when absent, else <<content>>
    pub,        \* publisher: the call of publish_rig in progress
    calls,      \* publisher: the requests sent to the remote, in order
    written,    \* publisher: the write request and what the remote did with it
    others      \* publisher: number of changes by other writers so far

importerVars == <<fs, pre, outcome, exitCode, args, prev, runs, edited>>
scaffolderVars == <<disk, templateFile, diskBefore, scaffold, scaffolds>>
publisherVars == <<remote, pub, calls, written, others>>
vars == <<importerVars, scaffolderVars, publisherVars>>

(***************************************************************************)
(* Bounds of the model.                                                    *)
(***************************************************************************)
MaxNodes == 2
MaxEdges == 2
MaxRuns == 2
MaxCut == 2
MaxScaffolds == 2
MaxOthers == 2

(***************************************************************************)
(* Python dict with insertion order: a sequence of <<key, value>> pairs.   *)
(***************************************************************************)
Keys(m) == {m[i][1] : i \in DOMAIN m}

Has(m, k) == k \in Keys(m)

Get(m, k) == m[CHOOSE i \in DOMAIN m : m[i][1] = k][2]

\* d[k] = v: an existing key keeps its position, a new key goes last.
Put(m, k, v) ==
    IF Has(m, k)
    THEN [i \in DOMAIN m |-> IF m[i][1] = k THEN <<k, v>> ELSE m[i]]
    ELSE Append(m, <<k, v>>)

\* d.setdefault(k, v): the mapping afterwards.
SetDefault(m, k, v) == IF Has(m, k) THEN m ELSE Append(m, <<k, v>>)

Without(r, k) == [x \in (DOMAIN r) \ {k} |-> r[x]]

Min(S) == CHOOSE x \in S : \A y \in S : x <= y

Max0(S) == CHOOSE x \in S : \A y \in S : x >= y

(***************************************************************************)
(* Files.  A YAML file is its top-level entries in file order, the format  *)
(* it was written in ("hand": written by a person, with comments and own   *)
(* layout; "dump": exactly what the YAML dumper emits for the entries),    *)
(* and whether it ends in the middle of an entry (a write cut short).      *)
(***************************************************************************)
RIG == "rig"
ORIGINAL == "rig.original"
MKG == "mkg"

YamlFile(fmt, entries, torn) == [fmt |-> fmt, entries |-> entries, torn |-> torn]

\* yaml.safe_dump(data, stream, sort_keys=False): the complete file.
SafeDump(doc) == YamlFile("dump", doc, FALSE)

\* yaml.safe_load: comments and layout are lost; a file cut inside an entry does
\* not parse, and an empty file loads as None, not as a mapping.
SafeLoad(file) ==
    IF file.torn THEN [ok |-> FALSE, error |-> "YAMLError", doc |-> <<>>]
    ELSE IF file.entries = <<>> THEN [ok |-> FALSE, error |-> "AttributeError", doc |-> <<>>]
    ELSE [ok |-> TRUE, error |-> "none", doc |-> file.entries]

\* What a write of `doc` that stops after `cut` half entries leaves in the file
\* opened with 'w': a prefix of the dump, ending at an entry boundary (even
\* `cut`) or inside an entry (odd `cut`).
DumpCutAt(doc, cut) == YamlFile("dump", SubSeq(doc, 1, cut \div 2), cut % 2 = 1)

\* Every proper prefix of the dump of `doc`.
PartialDumps(doc) == {DumpCutAt(doc, c) : c \in 0..(2 * Len(doc) - 1)}

\* os.rename(src, dst) on an existing src: dst is replaced.
Rename(dir, src, dst) ==
    [p \in ((DOMAIN dir) \ {src}) \cup {dst} |-> IF p = dst THEN dir[src] ELSE dir[p]]

WriteFile(dir, p, content) ==
    [q \in (DOMAIN dir) \cup {p} |-> IF q = p THEN content ELSE dir[q]]

RemoveFile(dir, p) == [q \in (DOMAIN dir) \ {p} |-> dir[q]]

(***************************************************************************)
(* The knowledge-graph description (the JSON file), after json.load.       *)
(* `nodes` is an ordered map category -> details; `edges` a sequence.      *)
(***************************************************************************)
Categories == <<"biolink:Disease", "biolink:Gene", "biolink:PhenotypicFeature">>

Attr(id) == [attribute_type_id |-> id, original_attribute_names |-> <<id>>]

DetailsOf(category) ==
    CASE category = "biolink:Disease" ->
            [id_prefixes |-> <<"MONDO">>,
             attributes |-> <<Attr("biolink:inheritance")>>]
      [] category = "biolink:Gene" ->
            [id_prefixes |-> <<"HGNC", "NCBIGene">>,
             attributes |-> <<Attr("biolink:p_value"), Attr("biolink:p_value")>>]
      [] OTHER ->
            [id_prefixes |-> <<"HP">>, attributes |-> <<>>]

EdgeDescriptors ==
    << [subject |-> "biolink:Disease", predicate |-> "biolink:has_phenotype",
        object |-> "biolink:PhenotypicFeature"],
       [subject |-> "biolink:Gene", predicate |-> "biolink:related_to",
        object |-> "biolink:Disease",
        attributes |-> <<Attr("biolink:publications")>>] >>

Cyclic(pool, start, n) == [i \in 1..n |-> pool[((start + i - 2) % Len(pool)) + 1]]

NodeSeq(start, n) ==
    LET cats == Cyclic(Categories, start, n)
    IN  [i \in 1..n |-> <<cats[i], DetailsOf(cats[i])>>]

MkgDoc(s, n, t, m) == [nodes |-> NodeSeq(s, n), edges |-> Cyclic(EdgeDescriptors, t, m)]

NodeCounts == 0..(IF MaxNodes < Len(Categories) THEN MaxNodes ELSE Len(Categories))

\* Descriptions with every required key present.
GoodMkgs == {MkgDoc(1 + (m % 2), n, 1 + (n % 2), m) : n \in NodeCounts, m \in 0..MaxEdges}

\* Every description obtained from `doc` by deleting exactly one required key.
Defects(doc) ==
    {Without(doc, "nodes"), Without(doc, "edges")}
    \cup {[doc EXCEPT !.nodes[i][2] = Without(@, k)] :
            i \in DOMAIN doc.nodes, k \in {"id_prefixes", "attributes"}}
    \cup UNION {{[doc EXCEPT !.nodes[i][2].attributes[j] = Without(@, "attribute_type_id")] :
                    j \in DOMAIN doc.nodes[i][2].attributes} : i \in DOMAIN doc.nodes}
    \cup {[doc EXCEPT !.edges[j] = Without(@, k)] :
            j \in DOMAIN doc.edges, k \in {"subject", "predicate", "object"}}

MalformedMkgs == Defects(MkgDoc(1, Max0(NodeCounts), 1, MaxEdges))

Mkgs == GoodMkgs \cup MalformedMkgs

\* The JSON files a user swaps in between two runs.
ReplacementMkgs == {MkgDoc(2, 1, 2, 1), Without(MkgDoc(1, 1, 1, 1), "edges")}

\* <<--knowledge_level, --agent_type>>: the defaults of lines 34 and 39, or given.
Invocations == {<<"not_provided", "not_provided">>, <<"knowledge_assertion", "manual_agent">>}

(***************************************************************************)
(* Metadata extraction, mkg_to_rig.py lines 100-168.                       *)
(***************************************************************************)
AttrIds(attributes) == [i \in DOMAIN attributes |-> attributes[i].attribute_type_id]

\* The first exception the body of the node loop raises on `details`.
NodeFault(details) ==
    IF "id_prefixes" \notin DOMAIN details THEN "KeyError:id_prefixes"
    ELSE IF "attributes" \notin DOMAIN details THEN "KeyError:attributes"
    ELSE IF \E j \in DOMAIN details.attributes :
                "attribute_type_id" \notin DOMAIN details.attributes[j]
         THEN "KeyError:attribute_type_id"
    ELSE "none"

\* The first exception the body of the edge loop raises; `bound` says whether the
\* node loop ran at least once and so left its loop variable `details` bound.
EdgeFault(edge, bound) ==
    IF "subject" \notin DOMAIN edge THEN "KeyError:subject"
    ELSE IF "predicate" \notin DOMAIN edge THEN "KeyError:predicate"
    ELSE IF "object" \notin DOMAIN edge THEN "KeyError:object"
    ELSE IF ~bound THEN "UnboundLocalError:details"
    ELSE "none"

\* The first exception of the two loops, "none" when both complete.
ExtractError(mkg) ==
    IF "nodes" \notin DOMAIN mkg THEN "KeyError:nodes"
    ELSE LET bad == {i \in DOMAIN mkg.nodes : NodeFault(mkg.nodes[i][2]) # "none"}
         IN  IF bad # {} THEN NodeFault(mkg.nodes[Min(bad)][2])
             ELSE IF "edges" \notin DOMAIN mkg THEN "KeyError:edges"
             ELSE LET worse == {j \in DOMAIN mkg.edges :
                                    EdgeFault(mkg.edges[j], mkg.nodes # <<>>) # "none"}
                  IN  IF worse # {} THEN EdgeFault(mkg.edges[Min(worse)], mkg.nodes # <<>>)
                      ELSE "none"

RigNode(category, details) ==
    [node_category |-> category,
     source_identifier_types |-> details.id_prefixes,
     node_properties |-> AttrIds(details.attributes)]

ExtractNodes(mkg) == [i \in DOMAIN mkg.nodes |-> RigNode(mkg.nodes[i][1], mkg.nodes[i][2])]

\* A variant that reads the edge descriptor's own attributes.
EdgePropertiesOfEdge(edge, details) ==
    IF "attributes" \in DOMAIN edge THEN AttrIds(edge.attributes) ELSE <<>>

\* Lines 157-161: `details` is whatever the node loop left in its loop variable.
EdgeProperties(edge, details) == AttrIds(details.attributes)

RigEdge(edge, details, knowledge_level, agent_type) ==
    [subject |-> <<edge.subject>>,
     predicates |-> <<edge.predicate>>,
     object |-> <<edge.object>>,
     knowledge_level |-> knowledge_level,
     agent_type |-> agent_type,
     edge_properties |-> EdgeProperties(edge, details)]

ExtractEdges(mkg, knowledge_level, agent_type) ==
    LET details == mkg.nodes[Len(mkg.nodes)][2]
    IN  [j \in DOMAIN mkg.edges |-> RigEdge(mkg.edges[j], details, knowledge_level, agent_type)]

(***************************************************************************)
(* RIG documents.  The scaffolder's template fill, create_rig.py 26-37.    *)
(* A string the code takes apart (an infores id, a file name) is the       *)
(* sequence of its tokens: <<"infores:", "ctd">> is "infores:ctd".         *)
(***************************************************************************)
\* f"RIG created on {datetime.now().strftime('%Y-%m-%d')}"
CreationNote(today) ==
    CASE today = "2026-11-04" -> "RIG created on 2026-11-04"
      [] OTHER -> "RIG created on 2026-11-05"

\* Whether the subscripts of lines 27-28 and 36 find their keys.
Fillable(template) ==
    /\ Has(template, "ReferenceIngestGuide")
    /\ Has(Get(template, "ReferenceIngestGuide"), "source_info")

FillTemplate(template, infores_id, rig_name, today) ==
    LET guide0 == Put(Get(template, "ReferenceIngestGuide"), "name", rig_name)
        guide1 == Put(guide0, "source_info",
                      Put(Get(guide0, "source_info"), "infores_id", infores_id))
        guide2 == SetDefault(guide1, "target_info", <<>>)
        guide3 == Put(guide2, "target_info",
                      Put(Get(guide2, "target_info"), "infores_id", infores_id))
        source == Get(guide3, "source_info")
        guide4 == IF Has(source, "additional_notes") THEN guide3
                  ELSE Put(guide3, "source_info",
                           Put(source, "additional_notes", CreationNote(today)))
    IN  Put(template, "ReferenceIngestGuide", guide4)

\* src/docs/files/rig_template.yaml as the documented RIG shape has it.
Template ==
    << <<"ReferenceIngestGuide",
         << <<"name", "Template">>,
            <<"source_info", << <<"infores_id", <<"infores:", "template">> >> >> >>,
            <<"target_info", << <<"infores_id", <<"infores:", "template">> >> >> >>,
            <<"ingest_info", "to be filled in">> >> >> >>

ScaffoldedRig == FillTemplate(Template, <<"infores:", "ctd">>, "CTD", "2026-11-04")

\* The RIG files an importer run may find.
RigFiles ==
    { SafeDump(ScaffoldedRig),
      YamlFile("hand", ScaffoldedRig, FALSE),
      YamlFile("hand", Append(ScaffoldedRig,
                              <<"target_info",
                                << <<"infores_id", <<"infores:", "ctd">> >> >> >>), FALSE),
      YamlFile("hand", <<>>, FALSE) }

(***************************************************************************)
(* The importer, mkg_to_rig.py main.                                       *)
(***************************************************************************)
Faults == {"none", "rename", "open", "write"}

\* A variant that appends to the lists already in target_info.
MergeAppending(target_info, nodes, edges) ==
    LET old_nodes == IF Has(target_info, "node_type_info")
                     THEN Get(target_info, "node_type_info") ELSE <<>>
        old_edges == IF Has(target_info, "edge_type_info")
                     THEN Get(target_info, "edge_type_info") ELSE <<>>
    IN  Put(Put(target_info, "node_type_info", old_nodes \o nodes),
            "edge_type_info", old_edges \o edges)

\* Lines 96-98 with the lists as the loops leave them.
MergeTargetInfo(target_info, nodes, edges) ==
    Put(Put(target_info, "node_type_info", nodes), "edge_type_info", edges)

\* Lines 88-168: rig_data when the `with` block ends, or the exception raised.
Integrate(dir, knowledge_level, agent_type) ==
    LET loaded == SafeLoad(dir[RIG])
        mkg == dir[MKG]
        rig_data == SetDefault(loaded.doc, "target_info", <<>>)
    IN  IF ~loaded.ok THEN [ok |-> FALSE, error |-> loaded.error, doc |-> <<>>]
        ELSE IF ExtractError(mkg) # "none"
        THEN [ok |-> FALSE, error |-> ExtractError(mkg), doc |-> <<>>]
        ELSE [ok |-> TRUE, error |-> "none",
              doc |-> Put(rig_data, "target_info",
                          MergeTargetInfo(Get(rig_data, "target_info"),
                                          ExtractNodes(mkg),
                                          ExtractEdges(mkg, knowledge_level, agent_type)))]

\* A variant that keeps a backup that is already there.
RenameKeeping(dir, src, dst) ==
    IF dst \in DOMAIN dir THEN RemoveFile(dir, src) ELSE Rename(dir, src, dst)

\* Line 170.
Backup(dir, src, dst) == Rename(dir, src, dst)

\* A variant that puts the backup back when the write fails.
CommitRestoring(dir, doc, fault, cut) ==
    IF fault = "rename" THEN [fs |-> dir, outcome |-> "OSError:rename"]
    ELSE IF fault = "open" THEN [fs |-> dir, outcome |-> "OSError:open"]
    ELSE IF fault = "write" THEN [fs |-> dir, outcome |-> "OSError:write"]
    ELSE [fs |-> WriteFile(Backup(dir, RIG, ORIGINAL), RIG, SafeDump(doc)), outcome |-> "ok"]

\* Lines 170-172: the rename, then open(rig_path, 'w') and the dump.  `fault`
\* is the call the operating system fails, `cut` where a failed write stops.
Commit(dir, doc, fault, cut) ==
    LET moved == Backup(dir, RIG, ORIGINAL)
        kept == Min({cut, 2 * Len(doc) - 1})
    IN  IF fault = "rename" THEN [fs |-> dir, outcome |-> "OSError:rename"]
        ELSE IF fault = "open" THEN [fs |-> moved, outcome |-> "OSError:open"]
        ELSE IF fault = "write"
        THEN [fs |-> WriteFile(moved, RIG, DumpCutAt(doc, kept)),
              outcome |-> "OSError:write"]
        ELSE [fs |-> WriteFile(moved, RIG, SafeDump(doc)), outcome |-> "ok"]

\* A variant that makes the backup before the extraction.
TryBodyBackupFirst(dir, knowledge_level, agent_type, fault, cut) ==
    LET merged == Integrate(dir, knowledge_level, agent_type)
    IN  IF ~merged.ok THEN [fs |-> Backup(dir, RIG, ORIGINAL), outcome |-> merged.error]
        ELSE Commit(dir, merged.doc, fault, cut)

\* Lines 86-176: the try block; any exception ends in the handler of line 174.
TryBody(dir, knowledge_level, agent_type, fault, cut) ==
    LET merged == Integrate(dir, knowledge_level, agent_type)
    IN  IF ~merged.ok THEN [fs |-> dir, outcome |-> merged.error]
        ELSE Commit(dir, merged.doc, fault, cut)

\* Lines 76-84, then the try block.
MainResult(dir, knowledge_level, agent_type, fault, cut) ==
    IF RIG \notin DOMAIN dir THEN [fs |-> dir, outcome |-> "rig_not_found"]
    ELSE IF MKG \notin DOMAIN dir THEN [fs |-> dir, outcome |-> "mkg_not_found"]
    ELSE TryBody(dir, knowledge_level, agent_type, fault, cut)

\* sys.exit(1) on lines 79, 84 and 176; a normal return otherwise.
ExitCodeOf(result) == IF result = "ok" THEN 0 ELSE 1

\* What the next run remembers of this one: its inputs when it succeeded.
NoInputs == [ok |-> FALSE, mkg |-> <<>>, args |-> <<"", "">>]

InputsOf(result, dir, invocation) ==
    IF result = "ok" THEN [ok |-> TRUE, mkg |-> <<dir[MKG]>>, args |-> invocation]
    ELSE NoInputs

\* The scaffolder and the publisher when they are not run.
ScaffolderIdle ==
    /\ disk = [files |-> <<>>, dirs |-> {}]
    /\ templateFile = <<>>
    /\ diskBefore = disk
    /\ scaffold = [outcome |-> "none"]
    /\ scaffolds = 0

PublisherIdle ==
    /\ remote = <<>>
    /\ pub = [pc |-> "idle"]
    /\ calls = <<>>
    /\ written = [kind |-> "none"]
    /\ others = 0

\* The ingest folders a first run may find: either file may be missing.
InitialDirs ==
    {[p \in {RIG, MKG} |-> IF p = RIG THEN r ELSE m] : r \in RigFiles, m \in Mkgs}
    \cup {[p \in {RIG} |-> r] : r \in RigFiles}
    \cup {[p \in {MKG} |-> m] : m \in Mkgs}

InitImporter ==
    /\ fs \in InitialDirs
    /\ pre = fs
    /\ outcome = "none"
    /\ exitCode = -1
    /\ args = <<"", "">>
    /\ prev = NoInputs
    /\ runs = 0
    /\ edited = FALSE
    /\ ScaffolderIdle
    /\ PublisherIdle

\* One run of the importer.
Main(knowledge_level, agent_type, fault, cut) ==
    /\ runs < MaxRuns
    /\ LET r == MainResult(fs, knowledge_level, agent_type, fault, cut)
       IN  /\ fs' = r.fs
           /\ outcome' = r.outcome
           /\ exitCode' = ExitCodeOf(r.outcome)
    /\ pre' = fs
    /\ args' = <<knowledge_level, agent_type>>
    /\ prev' = InputsOf(outcome, pre, args)
    /\ runs' = runs + 1
    /\ edited' = FALSE
    /\ UNCHANGED <<scaffolderVars, publisherVars>>

\* Between two runs the user replaces the JSON file.
ReplaceMkg(doc) ==
    /\ runs >= 1
    /\ runs < MaxRuns
    /\ ~edited
    /\ fs' = WriteFile(fs, MKG, doc)
    /\ edited' = TRUE
    /\ UNCHANGED <<pre, outcome, exitCode, args, prev, runs, scaffolderVars, publisherVars>>

\* Between two runs the user deletes the JSON file.
DeleteMkg ==
    /\ runs >= 1
    /\ runs < MaxRuns
    /\ ~edited
    /\ MKG \in DOMAIN fs
    /\ fs' = RemoveFile(fs, MKG)
    /\ edited' = TRUE
    /\ UNCHANGED <<pre, outcome, exitCode, args, prev, runs, scaffolderVars, publisherVars>>

NextImporter ==
    \/ \E inv \in Invocations, fault \in Faults, cut \in 0..MaxCut :
          Main(inv[1], inv[2], fault, cut)
    \/ \E doc \in ReplacementMkgs : ReplaceMkg(doc)
    \/ DeleteMkg

SpecImporter == InitImporter /\ [][NextImporter]_vars

(***************************************************************************)
(* Properties of the importer.                                             *)
(***************************************************************************)
RequiredKeysPresent(mkg) ==
    /\ {"nodes", "edges"} \subseteq DOMAIN mkg
    /\ \A i \in DOMAIN mkg.nodes :
          /\ {"id_prefixes", "attributes"} \subseteq DOMAIN mkg.nodes[i][2]
          /\ \A j \in DOMAIN mkg.nodes[i][2].attributes :
                "attribute_type_id" \in DOMAIN mkg.nodes[i][2].attributes[j]
    /\ \A j \in DOMAIN mkg.edges : {"subject", "predicate", "object"} \subseteq DOMAIN mkg.edges[j]

KeyErrors ==
    {"KeyError:nodes", "KeyError:edges", "KeyError:id_prefixes", "KeyError:attributes",
     "KeyError:attribute_type_id", "KeyError:subject", "KeyError:predicate", "KeyError:object"}

OsErrors == {"OSError:rename", "OSError:open", "OSError:write"}

\* The last run found both files, a RIG that loads, and no failing system call.
RunOnReadableInputs ==
    /\ runs >= 1
    /\ {RIG, MKG} \subseteq DOMAIN pre
    /\ SafeLoad(pre[RIG]).ok
    /\ outcome \notin OsErrors

\* The last run has ended and nobody has touched the folder since.
JustEnded == runs >= 1 /\ ~edited

\* The target_info mapping the importer writes to (line 93).
WrittenTargetInfo == Get(fs[RIG].entries, "target_info")

\* C1: for a description with N node categories and M edge descriptors, all
\* required keys present, a run produces exactly N node records and M edge
\* records, the i-th node record carrying the i-th category and the j-th edge
\* record the j-th edge's subject, predicate and object.
C1_OneRecordPerNodeAndEdge ==
    (RunOnReadableInputs /\ RequiredKeysPresent(pre[MKG])) =>
        /\ outcome = "ok"
        /\ LET mkg == pre[MKG]
               node_type_info == Get(WrittenTargetInfo, "node_type_info")
               edge_type_info == Get(WrittenTargetInfo, "edge_type_info")
           IN  /\ Len(node_type_info) = Len(mkg.nodes)
               /\ Len(edge_type_info) = Len(mkg.edges)
               /\ \A i \in DOMAIN mkg.nodes : node_type_info[i].node_category = mkg.nodes[i][1]
               /\ \A j \in DOMAIN mkg.edges :
                     /\ edge_type_info[j].subject = <<mkg.edges[j].subject>>
                     /\ edge_type_info[j].predicates = <<mkg.edges[j].predicate>>
                     /\ edge_type_info[j].object = <<mkg.edges[j].object>>

\* C1 restricted to descriptions that have a node category or no edge: the
\* case in which the run succeeds.
C1_HoldsWithANodeOrNoEdge ==
    (RunOnReadableInputs /\ RequiredKeysPresent(pre[MKG])
        /\ (pre[MKG].nodes # <<>> \/ pre[MKG].edges = <<>>)) => C1_OneRecordPerNodeAndEdge

\* C2: for a RIG of the documented shape (ReferenceIngestGuide containing
\* target_info) a successful run puts node_type_info and edge_type_info inside
\* that target_info, keeps its other keys, and keeps every key outside it.
C2_MergesIntoGuideTargetInfo ==
    LET before == SafeLoad(pre[RIG]).doc
        after == SafeLoad(fs[RIG]).doc
        guide == Get(before, "ReferenceIngestGuide")
        guide_after == Get(after, "ReferenceIngestGuide")
        target == Get(guide, "target_info")
        target_after == Get(guide_after, "target_info")
    IN  (/\ outcome = "ok"
         /\ Has(before, "ReferenceIngestGuide")
         /\ Has(guide, "target_info")) =>
            /\ {"node_type_info", "edge_type_info"} \subseteq Keys(target_after)
            /\ \A k \in Keys(target) : Get(target_after, k) = Get(target, k)
            /\ Keys(after) = Keys(before)
            /\ \A k \in Keys(guide) \ {"target_info"} : Get(guide_after, k) = Get(guide, k)

\* C3: after a successful run the two lists of target_info are exactly the
\* records extracted from the JSON of that run, whatever earlier runs left
\* there; a run that repeats the JSON and the arguments of the successful run
\* before it leaves target_info as it was.
C3_ReplaceNotAppend ==
    outcome = "ok" =>
        /\ Get(WrittenTargetInfo, "node_type_info") = ExtractNodes(pre[MKG])
        /\ Get(WrittenTargetInfo, "edge_type_info") = ExtractEdges(pre[MKG], args[1], args[2])
        /\ (prev.ok /\ prev.mkg = <<pre[MKG]>> /\ prev.args = args) =>
              WrittenTargetInfo = Get(SafeLoad(pre[RIG]).doc, "target_info")

\* A second successful run on other JSON, after a run that left records.
C3_Witness ==
    /\ outcome = "ok"
    /\ prev.ok
    /\ prev.mkg # <<pre[MKG]>>
    /\ Get(Get(SafeLoad(pre[RIG]).doc, "target_info"), "node_type_info") # <<>>
    /\ Get(WrittenTargetInfo, "node_type_info") # <<>>

\* A second successful run on the same JSON with the same arguments.
C3_SameInputsTwice ==
    /\ outcome = "ok"
    /\ prev.ok
    /\ prev.mkg = <<pre[MKG]>>
    /\ prev.args = args
    /\ Get(WrittenTargetInfo, "edge_type_info") # <<>>

\* C4: after every successful run, also one that finds an older backup,
\* <rig>.original holds what the RIG file held when the run started and the
\* RIG path holds the merged document.
C4_BackupHoldsPreRunContent ==
    outcome = "ok" =>
        /\ ORIGINAL \in DOMAIN fs
        /\ fs[ORIGINAL] = pre[RIG]
        /\ RIG \in DOMAIN fs
        /\ SafeLoad(fs[RIG]).ok
        /\ Get(WrittenTargetInfo, "node_type_info") = ExtractNodes(pre[MKG])

\* A successful run that found a backup with other content than the RIG file.
C4_Witness ==
    /\ outcome = "ok"
    /\ ORIGINAL \in DOMAIN pre
    /\ pre[ORIGINAL] # pre[RIG]

\* C5: a run that ends with exit code 1 because the RIG file or the JSON file
\* is missing or a required key is absent leaves every file of the folder,
\* the backup included, as it was, and creates no backup.
C5_RejectedRunTouchesNothing ==
    (JustEnded /\ exitCode = 1 /\ outcome \in {"rig_not_found", "mkg_not_found"} \cup KeyErrors)
        => fs = pre

\* A run rejected for an absent key in a folder that already holds a backup.
C5_Witness ==
    /\ JustEnded
    /\ exitCode = 1
    /\ outcome \in KeyErrors
    /\ ORIGINAL \in DOMAIN pre
    /\ fs[ORIGINAL] # fs[RIG]

\* C6: when the JSON has a node category, every edge record's edge_properties
\* is the attribute_type_id sequence of the last node category, whatever the
\* edge and whatever attributes the edge descriptor carries.
C6_EdgePropertiesOfLastNode ==
    (outcome = "ok" /\ pre[MKG].nodes # <<>>) =>
        LET nodes == pre[MKG].nodes
            last == nodes[Len(nodes)][2].attributes
            edge_type_info == Get(WrittenTargetInfo, "edge_type_info")
        IN  \A j \in DOMAIN edge_type_info :
                edge_type_info[j].edge_properties =
                    [i \in DOMAIN last |-> last[i].attribute_type_id]

\* Two node categories with different attributes, and an edge descriptor that
\* carries attributes of its own.
C6_Witness ==
    /\ outcome = "ok"
    /\ Len(pre[MKG].nodes) >= 2
    /\ pre[MKG].nodes[1][2].attributes # pre[MKG].nodes[Len(pre[MKG].nodes)][2].attributes
    /\ Len(pre[MKG].edges) >= 2
    /\ \E j \in DOMAIN pre[MKG].edges : "attributes" \in DOMAIN pre[MKG].edges[j]
    /\ Get(WrittenTargetInfo, "edge_type_info")[1].edge_properties # <<>>

\* The document the last run was about to write.
MergedDoc == Integrate(pre, args[1], args[2]).doc

Path(dir, name) == [dir |-> dir, name |-> name]

\* infores.startswith('infores:')
StartsWithInfores(infores) == infores # <<>> /\ infores[1] = "infores:"

\* str.replace(old, new) on tokens; new = "" removes the token.
RECURSIVE Replace(_, _, _)
Replace(str, old, new) ==
    IF str = <<>> THEN <<>>
    ELSE (IF Head(str) # old THEN <<Head(str)>>
          ELSE IF new = "" THEN <<>> ELSE <<new>>) \o Replace(Tail(str), old, new)

\* Lines 89-90.
DefaultOutput(infores) ==
    Path(<<"src", "docs", "rigs">>,
         Replace(Replace(infores, "infores:", ""), ":", "_") \o <<"_rig.yaml">>)

\* os.makedirs(dir, exist_ok=True) for a non-empty dir.
MakeDirs(d, dir) == [d EXCEPT !.dirs = @ \cup {SubSeq(dir, 1, k) : k \in 1..Len(dir)}]

TemplateWithNotes ==
    << <<"ReferenceIngestGuide",
         << <<"name", "Template">>,
            <<"source_info", << <<"infores_id", <<"infores:", "template">> >>,
                                <<"additional_notes", "notes of the template">> >> >> >> >>,
       <<"schema_version", "1">> >>

TemplateWithoutSource ==
    << <<"ReferenceIngestGuide", << <<"name", "Template">> >> >> >>

TemplateDocs == {Template, TemplateWithNotes, TemplateWithoutSource}

InforesIds == {<<"infores:", "ctd">>, <<"ctd">>, <<"infores:", "ctd", ":", "v2">>}

RigNames == {"CTD"}

\* --output: not given, a bare file name, a path with a directory.
Outputs ==
    {<<>>, <<Path(<<>>, <<"pharmgkb_rig.yaml">>)>>, <<Path(<<"out">>, <<"my_rig.yaml">>)>>}

Days == {"2026-11-04", "2026-11-05"}

\* Lines 20-41: load, fill, open(output_file, 'w'), dump.
CreateRig(d, template, infores, rig_name, output, today, fault) ==
    IF ~SafeLoad(template).ok THEN [disk |-> d, outcome |-> "TypeError"]
    ELSE IF ~Fillable(SafeLoad(template).doc) THEN [disk |-> d, outcome |-> "KeyError"]
    ELSE IF fault = "open" THEN [disk |-> d, outcome |-> "OSError:open"]
    ELSE [disk |-> [d EXCEPT !.files =
                        WriteFile(@, output,
                                  SafeDump(FillTemplate(SafeLoad(template).doc,
                                                        infores, rig_name, today)))],
          outcome |-> "ok"]

\* Lines 81-110.  `output` is <<>> when the option is not given, `answer` the
\* user's reply to the overwrite prompt.
ScaffoldResult(d, template, infores, rig_name, output, answer, today, fault) ==
    IF ~StartsWithInfores(infores) THEN [disk |-> d, outcome |-> "bad_infores"]
    ELSE LET out == IF output = <<>> THEN DefaultOutput(infores) ELSE output[1]
         IN  IF out.dir = <<>> THEN [disk |-> d, outcome |-> "FileNotFoundError:makedirs"]
             ELSE LET made == MakeDirs(d, out.dir)
                  IN  IF template = <<>> THEN [disk |-> made, outcome |-> "template_not_found"]
                      ELSE IF out \in DOMAIN made.files /\ ~answer
                      THEN [disk |-> made, outcome |-> "aborted"]
                      ELSE CreateRig(made, template[1], infores, rig_name, out, today, fault)

\* sys.exit(0) on line 104 and the normal return; sys.exit(1) on lines 84, 98
\* and 110; an exception that leaves main ends the interpreter with 1.
ScaffoldExitCode(result) == IF result \in {"ok", "aborted"} THEN 0 ELSE 1

ImporterIdle ==
    /\ fs = <<>>
    /\ pre = <<>>
    /\ outcome = "none"
    /\ exitCode = -1
    /\ args = <<"", "">>
    /\ prev = NoInputs
    /\ runs = 0
    /\ edited = FALSE

InitScaffolder ==
    /\ disk \in {[files |-> <<>>, dirs |-> ds] :
                    ds \in {{}, {<<"src">>, <<"src", "docs">>, <<"src", "docs", "rigs">>}}}
    /\ templateFile \in {<<>>} \cup {<<YamlFile("hand", t, FALSE)>> : t \in TemplateDocs}
    /\ diskBefore = disk
    /\ scaffold = [outcome |-> "none"]
    /\ scaffolds = 0
    /\ ImporterIdle
    /\ PublisherIdle

\* One run of the scaffolder.
Scaffold(infores, rig_name, output, answer, today, fault) ==
    /\ scaffolds < MaxScaffolds
    /\ LET r == ScaffoldResult(disk, templateFile, infores, rig_name, output, answer, today, fault)
       IN  /\ disk' = r.disk
           /\ scaffold' = [outcome |-> r.outcome, exitCode |-> ScaffoldExitCode(r.outcome),
                           infores |-> infores, name |-> rig_name, output |-> output,
                           today |-> today, fault |-> fault]
    /\ diskBefore' = disk
    /\ scaffolds' = scaffolds + 1
    /\ UNCHANGED <<templateFile, importerVars, publisherVars>>

NextScaffolder ==
    \E infores \in InforesIds, rig_name \in RigNames, output \in Outputs,
       answer \in BOOLEAN, today \in Days, fault \in {"none", "open"} :
          Scaffold(infores, rig_name, output, answer, today, fault)

SpecScaffolder == InitScaffolder /\ [][NextScaffolder]_vars

(***************************************************************************)
(* Properties of the scaffolder.                                           *)
(***************************************************************************)
\* The path the last run was to write: --output, or the default of line 90.
OutputPath ==
    IF scaffold.output = <<>> THEN DefaultOutput(scaffold.infores) ELSE scaffold.output[1]

\* C7: for an infores id with the prefix, an existing well-formed template and
\* an output path that does not exist yet (the default, a path with a
\* directory, or a bare file name) the scaffolder exits 0 and writes a
\* document with the given name, the infores id in source_info and in
\* target_info, additional_notes kept or set to the creation note, and every
\* other key of the template unchanged.
C7_FillsTheTemplate ==
    (/\ scaffolds >= 1
     /\ StartsWithInfores(scaffold.infores)
     /\ templateFile # <<>>
     /\ Fillable(templateFile[1].entries)
     /\ OutputPath \notin DOMAIN diskBefore.files
     /\ scaffold.fault = "none") =>
        /\ scaffold.exitCode = 0
        /\ OutputPath \in DOMAIN disk.files
        /\ LET template == Get(templateFile[1].entries, "ReferenceIngestGuide")
               guide == Get(SafeLoad(disk.files[OutputPath]).doc, "ReferenceIngestGuide")
               source == Get(guide, "source_info")
               source0 == Get(template, "source_info")
           IN  /\ Get(guide, "name") = scaffold.name
               /\ Get(source, "infores_id") = scaffold.infores
               /\ Get(Get(guide, "target_info"), "infores_id") = scaffold.infores
               /\ Get(source, "additional_notes") =
                     IF Has(source0, "additional_notes") THEN Get(source0, "additional_notes")
                     ELSE CreationNote(scaffold.today)
               /\ \A k \in Keys(template) \ {"name", "source_info", "target_info"} :
                     Get(guide, k) = Get(template, k)
               /\ \A k \in Keys(templateFile[1].entries) \ {"ReferenceIngestGuide"} :
                     Get(SafeLoad(disk.files[OutputPath]).doc, k) = Get(templateFile[1].entries, k)

\* C7 for the output paths that have a directory part.
C7_HoldsWithADirectory ==
    (scaffolds >= 1 /\ StartsWithInfores(scaffold.infores) /\ OutputPath.dir # <<>>)
        => C7_FillsTheTemplate

\* C8: a run that ends without the template fill (bad infores id, template
\* missing, overwrite declined) has created or changed no file and created no
\* directory.
C8_NoFillNoWrite ==
    (scaffolds >= 1 /\ scaffold.outcome \in {"bad_infores", "template_not_found", "aborted"})
        => disk = diskBefore

\* C8 without the template-missing exit.
C8_HoldsWhenTheTemplateExists ==
    (scaffolds >= 1 /\ scaffold.outcome \in {"bad_infores", "aborted"}) => disk = diskBefore

(***************************************************************************)
(* The publisher, rig_github.py.  The remote keeps, per branch, the file   *)
(* at the one path publish_rig writes; a file's SHA is the hash of its     *)
(* content, so equal contents have equal SHAs.                             *)
(***************************************************************************)
Branches == {"main", "dev"}

\* get_contents(path) names no ref: the remote answers from its default branch.
DefaultBranch == "main"

OtherContents == {"v1", "v2"}

PublishedContents == {"README of the RIG", "v1"}

BlobSha(content) == <<"blob", content>>

\* The remote's answer to update_file(path, message, content, sha, branch).
RemoteUpdate(r, branch, content, sha) ==
    IF r[branch] = <<>> THEN [remote |-> r, raised |-> "GithubException:404"]
    ELSE IF BlobSha(r[branch][1]) # sha THEN [remote |-> r, raised |-> "GithubException:409"]
    ELSE [remote |-> [r EXCEPT ![branch] = <<content>>], raised |-> "none"]

\* The remote's answer to create_file(path, message, content, branch).
RemoteCreate(r, branch, content) ==
    IF r[branch] # <<>> THEN [remote |-> r, raised |-> "GithubException:422"]
    ELSE [remote |-> [r EXCEPT ![branch] = <<content>>], raised |-> "none"]

\* A variant that, on a conflict, reads the SHA again and repeats the update.
WriteRequestRetrying(r, branch, content, sha) ==
    IF sha = <<>> THEN RemoteCreate(r, branch, content)
    ELSE IF RemoteUpdate(r, branch, content, sha[1]).raised = "GithubException:409"
    THEN RemoteUpdate(r, branch, content, BlobSha(r[branch][1]))
    ELSE RemoteUpdate(r, branch, content, sha[1])

\* Lines 65-79: update_file with the SHA read, create_file when none was read.
WriteRequest(r, branch, content, sha) ==
    IF sha # <<>> THEN RemoteUpdate(r, branch, content, sha[1])
    ELSE RemoteCreate(r, branch, content)

InitPublisher ==
    /\ remote \in [Branches -> {<<>>} \cup {<<c>> : c \in OtherContents}]
    /\ pub \in {[pc |-> "start", branch |-> b, content |-> c, auth |-> a, sha |-> <<>>,
                 raced |-> FALSE, outcome |-> "none", closed |-> FALSE] :
                    b \in Branches, c \in PublishedContents, a \in {"token", "none"}}
    /\ calls = <<>>
    /\ written = [kind |-> "none"]
    /\ others = 0
    /\ ImporterIdle
    /\ ScaffolderIdle

\* publish_rig line 97, RigGitHub.__init__ lines 26-37.
Construct ==
    /\ pub.pc = "start"
    /\ pub' = IF pub.auth = "none"
              THEN [pub EXCEPT !.pc = "raised", !.outcome = "ValueError"]
              ELSE [pub EXCEPT !.pc = "read"]
    /\ UNCHANGED <<remote, calls, written, others, importerVars, scaffolderVars>>

\* Lines 58-64: the existence read; every exception means "no SHA".  `fails`
\* is a request that fails although the file is there.
GetContents(fails) ==
    /\ pub.pc = "read"
    /\ pub' = [pub EXCEPT !.pc = "write",
                          !.sha = IF remote[DefaultBranch] # <<>> /\ ~fails
                                  THEN <<BlobSha(remote[DefaultBranch][1])>> ELSE <<>>]
    /\ calls' = Append(calls, "get_contents")
    /\ UNCHANGED <<remote, written, others, importerVars, scaffolderVars>>

\* Lines 65-79: the one write request; what it raises leaves publish_document
\* and publish_rig as it is.
PublishWrite ==
    /\ pub.pc = "write"
    /\ LET kind == IF pub.sha # <<>> THEN "update_file" ELSE "create_file"
           answer == WriteRequest(remote, pub.branch, pub.content, pub.sha)
       IN  /\ remote' = answer.remote
           /\ calls' = Append(calls, kind)
           /\ written' = [kind |-> kind, sha |-> pub.sha, before |-> remote[pub.branch],
                          after |-> answer.remote[pub.branch], raised |-> answer.raised]
           /\ pub' = IF answer.raised = "none" THEN [pub EXCEPT !.pc = "close"]
                     ELSE [pub EXCEPT !.pc = "raised", !.outcome = answer.raised]
    /\ UNCHANGED <<others, importerVars, scaffolderVars>>

\* publish_rig line 103.
Close ==
    /\ pub.pc = "close"
    /\ pub' = [pub EXCEPT !.pc = "done", !.outcome = "ok", !.closed = TRUE]
    /\ UNCHANGED <<remote, calls, written, others, importerVars, scaffolderVars>>

\* Another writer commits a change of the file on a branch.
OtherWrite(branch, content) ==
    /\ others < MaxOthers
    /\ pub.pc \in {"start", "read", "write"}
    /\ remote[branch] # <<content>>
    /\ remote' = [remote EXCEPT ![branch] = <<content>>]
    /\ pub' = [pub EXCEPT !.raced = @ \/ (pub.pc = "write" /\ branch = pub.branch)]
    /\ others' = others + 1
    /\ UNCHANGED <<calls, written, importerVars, scaffolderVars>>

\* Another writer deletes the file on a branch.
OtherDelete(branch) ==
    /\ others < MaxOthers
    /\ pub.pc \in {"start", "read", "write"}
    /\ remote[branch] # <<>>
    /\ remote' = [remote EXCEPT ![branch] = <<>>]
    /\ pub' = [pub EXCEPT !.raced = @ \/ (pub.pc = "write" /\ branch = pub.branch)]
    /\ others' = others + 1
    /\ UNCHANGED <<calls, written, importerVars, scaffolderVars>>

NextPublisher ==
    \/ Construct
    \/ \E fails \in BOOLEAN : GetContents(fails)
    \/ PublishWrite
    \/ Close
    \/ \E b \in Branches, c \in OtherContents : OtherWrite(b, c)
    \/ \E b \in Branches : OtherDelete(b)

SpecPublisher == InitPublisher /\ [][NextPublisher]_vars

(***************************************************************************)
(* Properties of the publisher.                                            *)
(***************************************************************************)
\* The SHA sent with the update is not the SHA of the file on the branch.
StaleSha ==
    /\ written.kind = "update_file"
    /\ (written.before = <<>> \/ BlobSha(written.before[1]) # written.sha[1])

\* One existence read, then exactly one write and never a second: update_file
\* with the SHA read when the read gave one, create_file otherwise; what the
\* write raises reaches the caller as the remote raised it.
OneReadThenOneWrite ==
    /\ Len(calls) <= 2
    /\ Len(calls) >= 1 => calls[1] = "get_contents"
    /\ Len(calls) = 2 =>
          /\ calls[2] = IF pub.sha # <<>> THEN "update_file" ELSE "create_file"
          /\ written.kind = calls[2]
          /\ written.sha = pub.sha
    /\ pub.pc \in {"close", "done"} => (Len(calls) = 2 /\ written.raised = "none")
    /\ (pub.pc = "raised" /\ pub.outcome # "ValueError") =>
          (Len(calls) = 2 /\ written.raised = pub.outcome /\ ~pub.closed)

\* C9: publish_document sends one existence read and then exactly one write,
\* update_file with the SHA read or else create_file, with no retry; when
\* another writer changes the path between the read and the update, the
\* update fails, the failure reaches the caller untranslated, and the remote
\* keeps the other writer's file.
C9_AConcurrentChangeFailsTheUpdate ==
    /\ OneReadThenOneWrite
    /\ (written.kind = "update_file" /\ pub.raced) =>
          /\ written.raised # "none"
          /\ pub.pc = "raised"
          /\ pub.outcome = written.raised
          /\ written.after = written.before

\* C9 as amended: the update fails, and leaves the remote as the other writer
\* left it, when the SHA read is not the SHA of the file on the target branch
\* at the update.
C9_OneReadOneWriteNoRetry ==
    /\ OneReadThenOneWrite
    /\ StaleSha =>
          /\ written.raised # "none"
          /\ pub.pc = "raised"
          /\ pub.outcome = written.raised
          /\ written.after = written.before

\* Another writer replaced the file after the read; the update was refused.
C9_Witness ==
    /\ pub.raced
    /\ StaleSha
    /\ written.before # <<>>
    /\ pub.branch = DefaultBranch
    /\ pub.pc = "raised"

====
